---- MODULE Spec2Model ----
(***************************************************************************)
(* EntitySparseSet<V> (crates/bevy_ecs/src/entity/entity_sparse_set.rs):   *)
(* a dense Vec<V> of values and a sparse Vec<Option<NonMaxU32>> that maps  *)
(* an entity index to a position of the dense vector.                      *)
(*                                                                         *)
(* Positions are kept 0-based as in the source; TLA+ sequences are 1-based,*)
(* so dense position p is d[p + 1] and sparse slot i is s[i + 1].          *)
(***************************************************************************)
EXTENDS Integers, Sequences, FiniteSets

(***************************************************************************)
(* Bounds of the model.                                                    *)
(***************************************************************************)
\* u32::MAX scaled down: the one value NonMaxU32 cannot hold.  Positions are
\* computed modulo U32_MAX + 1, as `len as u32` computes them modulo 2^32.
U32_MAX == 3
\* Entity indices are 0..MaxIndex.
MaxIndex == 3
\* The model stops appending once dense holds MaxDense values.
MaxDense == 5
\* The longest slice handed to insert_from_slice_unique.
MaxSlice == 2

Indices == 0..MaxIndex
Values == {"a", "b"}

\* Option::None of a sparse slot, and of get's result.
None == -1
NoValue == "none"

VARIABLES
    dense,   \* Vec<V>
    sparse,  \* Vec<Option<NonMaxU32>>: None or a position
    call,    \* the last call made on the set: its name, arguments and outcome
    latest   \* history: per index, the value of its most recent insert since the
             \* last clear (NoValue when there was none)

vars == <<dense, sparse, call, latest>>

(***************************************************************************)
(* Helpers of the standard library the code calls.                         *)
(***************************************************************************)
\* `n as u32`
AsU32(n) == n % (U32_MAX + 1)

\* What Some(NonMaxU32::new_unchecked(n)) holds.  n = u32::MAX breaks the
\* function's contract (undefined behaviour): NonMaxU32 keeps n ^ MAX in a
\* NonZeroU32, so the slot's bits are those of None, while the build may also go
\* on as if the slot held Some(MAX).  `ub` is the outcome taken.
UBOutcomes == {None, U32_MAX}
\* The outcomes to consider for a call that stores the positions first..last - 1:
\* both when one of them is u32::MAX, and otherwise one (which is never used).
Outcomes(first, last) ==
    IF \E p \in first..(last - 1) : AsU32(p) = U32_MAX THEN UBOutcomes ELSE {None}
NonMaxNewUnchecked(n, ub) == IF n = U32_MAX THEN ub ELSE n

\* Vec::resize(new_len, None)
Resize(s, new_len) ==
    IF new_len <= Len(s)
    THEN SubSeq(s, 1, new_len)
    ELSE s \o [k \in 1..(new_len - Len(s)) |-> None]

\* slice::get(index): the slot, or OutOfRange for an index >= len
OutOfRange == -2
SliceGet(s, index) == IF index < Len(s) THEN s[index + 1] ELSE OutOfRange

\* A read of dense.get_unchecked(p): the value, or Dangling when p is not a
\* position of dense (the read is then outside the vector).
Dangling == "dangling"
GetUnchecked(d, p) == IF p >= 0 /\ p < Len(d) THEN d[p + 1] ELSE Dangling

(***************************************************************************)
(* The operations, as functions of the container [dense, sparse].          *)
(***************************************************************************)
\* Default::default()
Default == [dense |-> <<>>, sparse |-> <<>>]

\* get(entity): NoValue for Option::None
get(d, s, index) ==
    LET dense_index == SliceGet(s, index) IN
    IF dense_index = OutOfRange THEN NoValue
    ELSE IF dense_index # None THEN GetUnchecked(d, dense_index)
    ELSE NoValue

\* contains that tests the outer Option (the index is in range) and not the slot.
contains_in_range(s, index) == SliceGet(s, index) # OutOfRange

\* contains(entity)
contains(s, index) ==
    LET dense_index == SliceGet(s, index) IN
    IF dense_index # OutOfRange THEN dense_index # None ELSE FALSE

\* The branch insert(entity, value) takes.
InsertBranch(s, index) ==
    IF SliceGet(s, index) # OutOfRange
    THEN IF SliceGet(s, index) # None THEN "overwrite" ELSE "append"
    ELSE "grow"

\* insert with the position read after the push instead of before it.
insert_position_after_push(d, s, index, value, ub) ==
    LET resized == IF index < Len(s) THEN s ELSE Resize(s, index + 1) IN
    IF SliceGet(s, index) # OutOfRange /\ SliceGet(s, index) # None
    THEN [dense |-> [d EXCEPT ![SliceGet(s, index) + 1] = value], sparse |-> s]
    ELSE [dense |-> Append(d, value),
          sparse |-> [resized EXCEPT ![index + 1] =
                         NonMaxNewUnchecked(AsU32(Len(d) + 1), ub)]]

\* insert without its overwrite branch: a present index is given a new position.
insert_always_append(d, s, index, value, ub) ==
    LET resized == IF index < Len(s) THEN s ELSE Resize(s, index + 1) IN
    [dense |-> Append(d, value),
     sparse |-> [resized EXCEPT ![index + 1] =
                    NonMaxNewUnchecked(AsU32(Len(d)), ub)]]

\* insert(entity, value)
insert(d, s, index, value, ub) ==
    IF SliceGet(s, index) # OutOfRange
    THEN IF SliceGet(s, index) # None
         THEN [dense |-> [d EXCEPT ![SliceGet(s, index) + 1] = value],
               sparse |-> s]
         ELSE [dense |-> Append(d, value),
               sparse |-> [s EXCEPT ![index + 1] =
                              NonMaxNewUnchecked(AsU32(Len(d)), ub)]]
    ELSE LET resized == Resize(s, index + 1) IN
         [dense |-> Append(d, value),
          sparse |-> [resized EXCEPT ![index + 1] =
                         NonMaxNewUnchecked(AsU32(Len(d)), ub)]]

\* clear that forgets the sparse vector.
clear_dense_only == [dense |-> <<>>, sparse |-> sparse]

\* clear()
clear == [dense |-> <<>>, sparse |-> <<>>]

\* The assert! with <= for <: one value too many is let through.
BulkAssert_off_by_one(d, entites, values) ==
    Len(entites) = Len(values) /\ Len(d) + Len(entites) <= U32_MAX

\* The assert! that opens insert_from_slice_unique.
BulkAssert(d, entites, values) ==
    Len(entites) = Len(values) /\ Len(d) + Len(entites) < U32_MAX

\* The for_each without `dst_len += 1`: every entity gets the first position.
RECURSIVE BulkSparse_same_position(_, _, _, _, _)
BulkSparse_same_position(s, entites, k, dst_len, ub) ==
    IF k > Len(entites) THEN s
    ELSE LET index == entites[k]
             grown == IF index >= Len(s) THEN Resize(s, index + 1) ELSE s
         IN BulkSparse_same_position(
                [grown EXCEPT ![index + 1] = NonMaxNewUnchecked(AsU32(dst_len), ub)],
                entites, k + 1, dst_len, ub)

\* The for_each without the `index >= self.sparse.len()` test: resize is always
\* called, and truncates the sparse vector behind a smaller index.
RECURSIVE BulkSparse_unguarded(_, _, _, _, _)
BulkSparse_unguarded(s, entites, k, dst_len, ub) ==
    IF k > Len(entites) THEN s
    ELSE LET index == entites[k]
             grown == Resize(s, index + 1)
         IN BulkSparse_unguarded(
                [grown EXCEPT ![index + 1] = NonMaxNewUnchecked(AsU32(dst_len), ub)],
                entites, k + 1, dst_len + 1, ub)

\* The for_each of insert_from_slice_unique over entites[k..], with dst_len the
\* position the k-th entity gets.
RECURSIVE BulkSparse(_, _, _, _, _)
BulkSparse(s, entites, k, dst_len, ub) ==
    IF k > Len(entites) THEN s
    ELSE LET index == entites[k]
             grown == IF index >= Len(s) THEN Resize(s, index + 1) ELSE s
         IN BulkSparse([grown EXCEPT ![index + 1] =
                           NonMaxNewUnchecked(AsU32(dst_len), ub)],
                       entites, k + 1, dst_len + 1, ub)

\* insert(entites[k], values[k]) for k, k + 1, ... in slice order.
RECURSIVE InsertEach(_, _, _, _, _, _)
InsertEach(d, s, entites, values, k, ub) ==
    IF k > Len(entites) THEN [dense |-> d, sparse |-> s]
    ELSE LET after == insert(d, s, entites[k], values[k], ub) IN
         InsertEach(after.dense, after.sparse, entites, values, k + 1, ub)

\* The bulk insert written as a loop of insert: a present index is overwritten
\* in place.
insert_from_slice_by_insert(d, s, entites, values, ub) ==
    InsertEach(d, s, entites, values, 1, ub)

\* The bulk insert without `self.dense.set_len(dst_len + count)`: the values are
\* copied into the reserved capacity, and dense keeps its length.
insert_from_slice_without_set_len(d, s, entites, values, ub) ==
    [dense |-> d, sparse |-> BulkSparse(s, entites, 1, Len(d), ub)]

\* insert_from_slice_unique(entites, values), once its assert! has passed: the
\* first entites.len() values are copied behind dense, then the slots are set.
insert_from_slice_unique(d, s, entites, values, ub) ==
    [dense |-> d \o SubSeq(values, 1, Len(entites)),
     sparse |-> BulkSparse(s, entites, 1, Len(d), ub)]

(***************************************************************************)
(* The documented precondition of insert_from_slice_unique: "every entity  *)
(* in slice and dense are unique".                                         *)
(***************************************************************************)
Distinct(entites) ==
    \A j, k \in 1..Len(entites) : j # k => entites[j] # entites[k]

Unique(s, entites) ==
    Distinct(entites) /\ \A k \in 1..Len(entites) : ~contains(s, entites[k])

(***************************************************************************)
(* History of the calls.                                                   *)
(***************************************************************************)
RECURSIVE Record(_, _, _, _)
Record(l, entites, values, k) ==
    IF k > Len(entites) THEN l
    ELSE Record([l EXCEPT ![entites[k]] = values[k]], entites, values, k + 1)

\* `call` holds the name of the last call, the lengths of its slices, whether it
\* panicked, the branch it took ("emptied" for a clear of a set that held
\* values), whether the indices it was given were pairwise
\* distinct and absent when it was made and, for a call that returned, its
\* arguments (a single insert is a call with slices of length 1).
Called(op, entites, values, panicked, branch, unique) ==
    [op |-> op, lens |-> <<Len(entites), Len(values)>>,
     entites |-> IF panicked THEN <<>> ELSE entites,
     values |-> IF panicked THEN <<>> ELSE values,
     panicked |-> panicked, branch |-> branch, unique |-> unique]

NoCall == Called("default", <<>>, <<>>, FALSE, "none", TRUE)

(***************************************************************************)
(* The state machine: one action per public method that takes &mut self.   *)
(***************************************************************************)
Init ==
    /\ dense = Default.dense
    /\ sparse = Default.sparse
    /\ call = NoCall
    /\ latest = [i \in Indices |-> NoValue]

\* insert(entity, value), the value drawn from V
Insert(V) ==
    /\ ~call.panicked
    /\ \E index \in Indices, value \in V, ub \in Outcomes(Len(dense), Len(dense) + 1) :
        LET after == insert(dense, sparse, index, value, ub) IN
        /\ Len(after.dense) <= MaxDense
        /\ dense' = after.dense
        /\ sparse' = after.sparse
        /\ call' = Called("insert", <<index>>, <<value>>, FALSE,
                           InsertBranch(sparse, index), ~contains(sparse, index))
        /\ latest' = [latest EXCEPT ![index] = value]

CallClear ==
    /\ ~call.panicked
    /\ dense' = clear.dense
    /\ sparse' = clear.sparse
    /\ call' = Called("clear", <<>>, <<>>, FALSE,
                       IF Len(dense) > 0 THEN "emptied" ELSE "none", TRUE)
    /\ latest' = [i \in Indices |-> NoValue]

\* insert_from_slice_unique(entites, values): a failed assert! panics before
\* anything is written, and the unwinding leaves the set as it was.  The run ends
\* there: nothing is reachable from the unchanged set that was not before.
Bulk(entites, values, ub) ==
    IF BulkAssert(dense, entites, values)
    THEN LET after == insert_from_slice_unique(dense, sparse, entites, values, ub) IN
         /\ Len(after.dense) <= MaxDense
         /\ dense' = after.dense
         /\ sparse' = after.sparse
         /\ call' = Called("insert_from_slice_unique", entites, values, FALSE,
                            "bulk", Unique(sparse, entites))
         /\ latest' = Record(latest, entites, values, 1)
    ELSE /\ call' = Called("insert_from_slice_unique", entites, values, TRUE,
                            "assert", Unique(sparse, entites))
         /\ UNCHANGED <<dense, sparse, latest>>

SeqsUpTo(S, n) == UNION {[1..m -> S] : m \in 0..n}

\* Any two slices, the values drawn from V.
BulkAny(V) ==
    /\ ~call.panicked
    /\ \E entites \in SeqsUpTo(Indices, MaxSlice), values \in SeqsUpTo(V, MaxSlice) :
        \E ub \in Outcomes(Len(dense), Len(dense) + Len(entites)) :
            Bulk(entites, values, ub)

CallInsert == Insert(Values)

\* Slices that respect the documented precondition: equal lengths, pairwise
\* distinct indices, none of them present.
CallBulkUnique ==
    /\ ~call.panicked
    /\ \E entites \in SeqsUpTo({i \in Indices : ~contains(sparse, i)}, MaxSlice) :
        /\ Unique(sparse, entites)
        /\ \E values \in [1..Len(entites) -> Values],
              ub \in Outcomes(Len(dense), Len(dense) + Len(entites)) :
               Bulk(entites, values, ub)

\* The documented use: insert, clear, and insert_from_slice_unique within its
\* precondition.
Next == CallInsert \/ CallClear \/ CallBulkUnique
Spec == Init /\ [][Next]_vars

\* insert alone, from the empty set.
NextInsert == CallInsert
SpecInsert == Init /\ [][NextInsert]_vars

\* Every call with any arguments, the slices' lengths and the uniqueness of the
\* indices included.  What is checked under it is about positions and lengths,
\* so the values inserted are all the same one.
OneValue == {"a"}
AnyInsert == Insert(OneValue)
AnyBulk == BulkAny(OneValue)
NextAny == AnyInsert \/ CallClear \/ AnyBulk
SpecAny == Init /\ [][NextAny]_vars

(***************************************************************************)
(* Shorthands of the properties.                                           *)
(***************************************************************************)
\* Every index a caller can pass, one beyond the sparse vector's longest included.
AllIndices == 0..(MaxIndex + 1)

Present(s) == {i \in 0..(Len(s) - 1) : s[i + 1] # None}

\* Some present slot holds position p.
Referenced(s, p) == \E i \in Present(s) : s[i + 1] = p

\* The indices inserted since the last clear.
Inserted == {i \in Indices : latest[i] # NoValue}

Max(S) == CHOOSE m \in S : \A x \in S : x <= m

\* The last place of entites[k] in entites.
LastOf(entites, k) ==
    Max({j \in 1..Len(entites) : entites[j] = entites[k]})

\* get and contains answer alike on two sets.
SameMapping(d1, s1, d2, s2) ==
    \A i \in AllIndices :
        get(d1, s1, i) = get(d2, s2, i) /\ contains(s1, i) = contains(s2, i)

IsBulk(c) == c.op = "insert_from_slice_unique"

TypeOK ==
    /\ dense \in SeqsUpTo(Values, MaxDense)
    /\ \A k \in 1..Len(sparse) : sparse[k] \in {None} \cup 0..U32_MAX
    /\ Len(sparse) <= MaxIndex + 1
    /\ latest \in [Indices -> Values \cup {NoValue}]

(***************************************************************************)
(* C1.  Under the documented use (insert, clear, insert_from_slice_unique   *)
(* with equal-length slices of pairwise distinct, absent indices), every    *)
(* present sparse slot holds a position d with d < dense.len(): the         *)
(* unchecked read of get and the unchecked write of insert's overwrite      *)
(* branch stay inside dense.                                                *)
(***************************************************************************)
C1_InBounds ==
    /\ \A i \in Present(sparse) : sparse[i + 1] >= 0 /\ sparse[i + 1] < Len(dense)
    /\ \A i \in AllIndices : get(dense, sparse, i) # Dangling

\* An overwrite through the slot that holds the last position of a dense
\* vector grown past u32::MAX values.
C1_Witness ==
    /\ call.op = "insert" /\ call.branch = "overwrite"
    /\ Len(dense) > U32_MAX
    /\ SliceGet(sparse, call.entites[1]) = Len(dense) - 1

(***************************************************************************)
(* C2.  After any sequence of insert calls from the empty set, get(id) is   *)
(* the value of the most recent insert of id, and nothing for an id never   *)
(* inserted.                                                                *)
(***************************************************************************)
C2_RoundTrip == \A i \in Indices : get(dense, sparse, i) = latest[i]

\* The same while dense holds at most u32::MAX values, that is before the first
\* insert that C7 is about has been made.
C2_RoundTripBelowCapacity == Len(dense) <= U32_MAX => C2_RoundTrip

(***************************************************************************)
(* C3.  In every reachable state and for every index, those beyond the      *)
(* sparse vector included, contains(id) is true exactly when get(id)        *)
(* returns a value.                                                         *)
(***************************************************************************)
C3_ContainsIffGet ==
    \A i \in AllIndices : contains(sparse, i) <=> (get(dense, sparse, i) # NoValue)

\* A sparse vector with a present slot, an absent slot and an index beyond it.
C3_Witness ==
    /\ \E i \in Indices : i < Len(sparse) /\ sparse[i + 1] # None
    /\ \E i \in Indices : i < Len(sparse) /\ sparse[i + 1] = None
    /\ \E i \in Indices : i >= Len(sparse)

(***************************************************************************)
(* C4.  insert(id, v2) of a present id overwrites in place: dense keeps its *)
(* length, sparse is unchanged (so id keeps its position), every other      *)
(* dense entry is unchanged, and get(id) is v2 afterwards.                  *)
(***************************************************************************)
C4_Overwrite ==
    LET id == call'.entites[1]
        v2 == call'.values[1]
        position == SliceGet(sparse, id)
    IN (call'.op = "insert" /\ contains(sparse, id)) =>
           /\ Len(dense') = Len(dense)
           /\ sparse' = sparse
           /\ SliceGet(sparse', id) = position
           /\ \A p \in 0..(Len(dense) - 1) :
                  p # position => GetUnchecked(dense', p) = GetUnchecked(dense, p)
           /\ get(dense', sparse', id) = v2

C4_OverwriteInPlace == [][C4_Overwrite]_vars

\* An overwrite of a value that is not the last of dense.
C4_Witness ==
    /\ call.op = "insert" /\ call.branch = "overwrite"
    /\ Len(dense) >= 2
    /\ SliceGet(sparse, call.entites[1]) < Len(dense) - 1
    /\ get(dense, sparse, call.entites[1]) = call.values[1]

(***************************************************************************)
(* C5.  clear() succeeds from every reachable state and leaves both vectors *)
(* empty: the set is then the freshly constructed one (so every later call  *)
(* behaves as on a new set) and contains(id) is false for every id.         *)
(***************************************************************************)
C5_ClearResets ==
    call.op = "clear" =>
        /\ ~call.panicked
        /\ Len(dense) = 0 /\ Len(sparse) = 0
        /\ [dense |-> dense, sparse |-> sparse] = Default
        /\ \A i \in AllIndices :
               ~contains(sparse, i) /\ get(dense, sparse, i) = NoValue

\* A clear of a set that held values.
C5_Witness == call.op = "clear" /\ call.branch = "emptied"

(***************************************************************************)
(* C6.  insert_from_slice_unique(ids, values), called with equal-length     *)
(* slices of pairwise distinct, absent indices, gives every index the same  *)
(* get and contains as insert(ids[k], values[k]) for k = 0, 1, ... from the *)
(* same state.                                                              *)
(***************************************************************************)
C6_Precondition ==
    IsBulk(call') /\ call'.lens[1] = call'.lens[2] /\ call'.unique

C6_Equivalent ==
    LET seq == InsertEach(dense, sparse, call'.entites, call'.values, 1, None) IN
    /\ ~call'.panicked
    /\ SameMapping(dense', sparse', seq.dense, seq.sparse)

\* As claimed: for every such call.
C6_BulkAsInserts_AnyLength == [][C6_Precondition => C6_Equivalent]_vars

\* Amended: for every such call that also passes the capacity check
\* dense.len() + ids.len() < u32::MAX.
C6_BulkAsInserts ==
    [][(C6_Precondition /\ Len(dense) + call'.lens[1] < U32_MAX) => C6_Equivalent]_vars

\* A bulk insert of two indices, the larger first, with different values.
C6_Witness ==
    /\ IsBulk(call) /\ ~call.panicked /\ call.unique
    /\ Len(call.entites) = 2
    /\ call.entites[1] > call.entites[2]
    /\ call.values[1] # call.values[2]

(***************************************************************************)
(* C7.  An insert of an absent id that would need the position u32::MAX     *)
(* (the value reserved for "absent") or a larger one fails fast: it stores  *)
(* neither the reserved value nor a wrapped position and leaves the set as  *)
(* it was.                                                                  *)
(***************************************************************************)
C7_AtCapacity ==
    /\ call'.op = "insert"
    /\ ~contains(sparse, call'.entites[1])
    /\ Len(dense) >= U32_MAX

C7_FailsFast ==
    [][C7_AtCapacity => (call'.panicked /\ dense' = dense /\ sparse' = sparse)]_vars

(***************************************************************************)
(* C8.  insert_from_slice_unique panics when the two slices differ in       *)
(* length or when dense.len() + ids.len() is not below u32::MAX, and then   *)
(* neither vector has been modified.                                        *)
(***************************************************************************)
C8_Rejected ==
    /\ IsBulk(call')
    /\ \/ call'.lens[1] # call'.lens[2]
       \/ Len(dense) + call'.lens[1] >= U32_MAX

C8_AssertFirst ==
    [][C8_Rejected =>
          (call'.panicked /\ call'.branch = "assert"
           /\ dense' = dense /\ sparse' = sparse)]_vars

\* A panic on the capacity alone, at its boundary, of a set that holds values.
C8_Witness ==
    /\ IsBulk(call) /\ call.panicked
    /\ call.lens[1] = call.lens[2]
    /\ Len(dense) > 0
    /\ Len(dense) + call.lens[1] = U32_MAX

(***************************************************************************)
(* C9.  insert_from_slice_unique called with equal-length slices that break *)
(* uniqueness (an index twice in the slice, or an index already present)    *)
(* does not fail: the later entry takes the sparse slot, and the dense      *)
(* entry the slot pointed to stays in dense with no slot pointing to it, so *)
(* dense is longer than the number of present slots.                        *)
(***************************************************************************)
C9_Violation ==
    IsBulk(call') /\ call'.lens[1] = call'.lens[2] /\ ~call'.unique

C9_Corrupts ==
    LET entites == call'.entites IN
    /\ ~call'.panicked
    /\ SubSeq(dense', 1, Len(dense)) = dense
    /\ \A k \in 1..Len(entites) :
           /\ SliceGet(sparse', entites[k]) = Len(dense) + LastOf(entites, k) - 1
           /\ contains(sparse, entites[k]) =>
                  /\ SliceGet(sparse, entites[k]) < Len(dense')
                  /\ ~Referenced(sparse', SliceGet(sparse, entites[k]))
           /\ LastOf(entites, k) # k =>
                  /\ Len(dense) + k - 1 < Len(dense')
                  /\ ~Referenced(sparse', Len(dense) + k - 1)
    /\ Len(dense') > Cardinality(Present(sparse'))

\* As claimed: for every such call.
C9_Undetected_AnyLength == [][C9_Violation => C9_Corrupts]_vars

\* Amended: for every such call that passes the capacity check
\* dense.len() + ids.len() < u32::MAX.
C9_Undetected ==
    [][(C9_Violation /\ Len(dense) + call'.lens[1] < U32_MAX) => C9_Corrupts]_vars

\* A bulk insert that returned although an index of it was present or repeated.
C9_Witness ==
    /\ IsBulk(call) /\ ~call.panicked /\ ~call.unique
    /\ Len(dense) > Cardinality(Present(sparse))

(***************************************************************************)
(* C10.  The sparse vector is as long as the largest index inserted since   *)
(* the last clear requires, and no longer: 1 + that index, or 0 when none   *)
(* was inserted.  No insert or insert_from_slice_unique shortens it; only   *)
(* clear does.                                                              *)
(***************************************************************************)
C10_Covers == Len(sparse) = IF Inserted = {} THEN 0 ELSE 1 + Max(Inserted)

C10_Grows == call'.op # "clear" => Len(sparse') >= Len(sparse)

C10_SparseLength == []C10_Covers /\ [][C10_Grows]_vars

\* A bulk insert below the largest index inserted before it.
C10_Witness ==
    /\ IsBulk(call) /\ ~call.panicked
    /\ Len(call.entites) >= 1
    /\ \A k \in 1..Len(call.entites) : call.entites[k] + 1 < Len(sparse)

(***************************************************************************)
(* C11.  No present sparse slot ever holds u32::MAX, the value reserved for *)
(* "absent", as a position: every stored position is below u32::MAX, and    *)
(* dense never grows past u32::MAX values, the length at which the next     *)
(* position would be the reserved one.                                      *)
(***************************************************************************)
C11_BelowSentinel ==
    /\ \A i \in Present(sparse) : sparse[i + 1] < U32_MAX
    /\ Len(dense) <= U32_MAX

\* The claim fails only through the insert that C7 is about: while dense holds
\* at most u32::MAX values, no slot holds the reserved value.
C11_BelowSentinelBelowCapacity ==
    Len(dense) <= U32_MAX => \A i \in Present(sparse) : sparse[i + 1] < U32_MAX

(***************************************************************************)
(* C12.  dense is in stable insertion order: insert gives an absent id the  *)
(* position dense.len() had before the push, insert_from_slice_unique gives *)
(* its k-th entry (k = 0, 1, ...) the position dense.len() before the call  *)
(* + k, and a position once given is kept by every later insert and bulk    *)
(* insert within the precondition, until clear.                             *)
(***************************************************************************)
C12_Assigned ==
    /\ (call'.op = "insert" /\ ~contains(sparse, call'.entites[1])) =>
           SliceGet(sparse', call'.entites[1]) = Len(dense)
    /\ (IsBulk(call') /\ ~call'.panicked) =>
           \A k \in 1..Len(call'.entites) :
               SliceGet(sparse', call'.entites[k]) = Len(dense) + (k - 1)

C12_Kept ==
    call'.op # "clear" =>
        \A i \in Present(sparse) : SliceGet(sparse', i) = sparse[i + 1]

C12_StableOrder == [][C12_Assigned /\ C12_Kept]_vars

\* The claim fails only through the insert that C7 is about: every call made
\* while dense holds fewer than u32::MAX values assigns and keeps the positions
\* as claimed.
C12_StableOrderBelowCapacity ==
    [][Len(dense) < U32_MAX => (C12_Assigned /\ C12_Kept)]_vars

\* Positions are kept at every length.
C12_AlwaysKept == [][C12_Kept]_vars

(***************************************************************************)
(* C13.  Under the documented use the present sparse slots and the dense    *)
(* positions are in one-to-one correspondence: two indices never hold the   *)
(* same position, and there are as many present slots as dense values, so   *)
(* every position 0..dense.len() - 1 is held by exactly one slot.           *)
(***************************************************************************)
C13_OneToOne ==
    /\ \A i, j \in Present(sparse) : sparse[i + 1] = sparse[j + 1] => i = j
    /\ Cardinality(Present(sparse)) = Len(dense)
    /\ \A p \in 0..(Len(dense) - 1) : Referenced(sparse, p)

\* The claim fails only through the insert that C7 is about: it holds while
\* dense holds at most u32::MAX values.
C13_OneToOneBelowCapacity == Len(dense) <= U32_MAX => C13_OneToOne

(***************************************************************************)
(* C14.  insert(id, v) changes the mapping of id alone: every index j other *)
(* than id has the same get(j) and contains(j) after the insert as before   *)
(* it, also when the insert grows the sparse vector.  (get and contains     *)
(* take &self and are operators here: they have no step that could change   *)
(* a vector.)                                                               *)
(***************************************************************************)
C14_OthersKept ==
    call'.op = "insert" =>
        \A j \in AllIndices :
            j # call'.entites[1] =>
                /\ get(dense', sparse', j) = get(dense, sparse, j)
                /\ contains(sparse', j) = contains(sparse, j)

C14_InsertFrame == [][C14_OthersKept]_vars

\* The claim fails only after the insert that C7 is about, once a wrapped
\* position has made two indices share a dense entry: every insert into a set
\* of at most u32::MAX values leaves the other indices as they were.
C14_InsertFrameBelowCapacity == [][Len(dense) <= U32_MAX => C14_OthersKept]_vars

(***************************************************************************)
(* C15.  Also when insert_from_slice_unique is given indices that break     *)
(* uniqueness (twice in the slice, or already present) and its assert!      *)
(* passes, every present sparse slot holds a position below dense.len(),    *)
(* after the call and after every later insert, bulk insert and clear: what *)
(* the misuse breaks is the one-to-one correspondence, not the bound that   *)
(* get's unchecked read relies on.                                          *)
(***************************************************************************)
C15_InBoundsUnderMisuse ==
    \A i \in AllIndices :
        contains(sparse, i) =>
            /\ SliceGet(sparse, i) >= 0
            /\ SliceGet(sparse, i) < Len(dense)
            /\ get(dense, sparse, i) \in Values

\* An insert made after a bulk insert that broke uniqueness: dense holds at
\* most u32::MAX values, where only such a call leaves a dense entry that no
\* slot holds, and the insert took the position behind it.
C15_Witness ==
    /\ call.op = "insert" /\ call.branch # "overwrite"
    /\ Len(dense) <= U32_MAX
    /\ Len(dense) > Cardinality(Present(sparse))
    /\ SliceGet(sparse, call.entites[1]) = Len(dense) - 1
====
